---- MODULE Spec2Model ----
(***************************************************************************)
(* Model of the checkbox tree of src/src/treeselect/treeselect.py:         *)
(* TreeNode.compile, SelectTree.load, dump, toggle_check,                  *)
(* toggle_single_check, get_checked, is_checked, search, get_matches,      *)
(* get_next_match, expand_for_match; and of the server of                  *)
(* src/src/tkserver.py with the popup of src/src/treeselectpopup.py.       *)
(*                                                                         *)
(* Rows are numbered 1..n in the order load() inserts them (pre-order);    *)
(* 0 is the root item "" of the Treeview / TreeNode.ROOT.  A row number    *)
(* stands for the row's iid_path.                                          *)
(***************************************************************************)
EXTENDS Integers, Sequences, FiniteSets, TLC

VARIABLES
    par,              \* par[i]: the row's parent (TreeNode.parent, Treeview.parent); Len(par) rows
    checked,          \* checked[i]: TreeNode.checked of node i (0 = ROOT): "True", "False", "None"
    tags,             \* tags[i]: the set of tags of Treeview row i
    all_sector_iids,  \* SelectTree.all_sector_iids
    pc,               \* "new": the caller has built the TreeNodes; "loaded": SelectTree holds them
    last,             \* the last call: its arguments, whether the row was checked before it
                      \* (is_checked), and what it returned
    label,            \* label[i]: TreeNode.label / the text of Treeview row i
    opened,           \* opened[i]: TreeNode.opened / the open option of Treeview row i
    selection,        \* Treeview.selection()[0]; 0 when nothing is selected ("")
    searched,         \* the pattern of the search whose tags the rows carry; <<>> when none
    match_end,        \* SelectTreeWidget._match_end__reverse_mode: whether the last
                      \* next_match found no further match, and its direction
    address_pool,     \* TkBgServer.address_pool
    bind_errno,       \* the errno bind/listen gives on each address; 0 when they succeed
    sock,             \* TkBgServer.sock in the calling process
    server_address,   \* TkBgServer.server_address; 0 when None
    binds,            \* the addresses bind was called with, in order
    raised,           \* what the last server call raised: "None", "OSError(98)",
                      \* "OSError" (another errno), "TypeError"
    receiver,         \* the TkBgReceiver's socket: "None" (no receiver), "connected"
    process,          \* TkBgServer.process: "None", "started"
    proc,             \* the child process running proc: its copy of sock, its
                      \* position, what it sent
    listener,         \* the listening socket the caller and the child processes share
                      \* after the fork: "None", "listening", "shutdown"
    backlog,          \* the receivers whose connection waits to be accepted, oldest first
    processes,        \* processes[k]: the Process of the k-th call of the server object;
                      \* TkBgServer.process is the last one
    receivers,        \* receivers[k]: the TkBgReceiver of the k-th call
    scope             \* the `with` block around a receiver: the receiver, the position,
                      \* the receiver's socket when the block was entered, what
                      \* leaving the block raised

widget == <<label, opened, selection, searched, match_end>>

server == <<address_pool, bind_errno, sock, server_address, binds, raised, receiver,
            process, proc>>

transport == <<listener, backlog, processes, receivers, scope>>

vars == <<par, checked, tags, all_sector_iids, pc, last, widget, server, transport>>

\* The largest number of TreeNodes the caller builds.
MaxNodes == 4

\* ---- TagsConfig ----
t_entry == "t-entry"
t_top_sector == "t-sector-top"
t_sub_sector == "t-sector-sub"
c_check_entry == "c-check"
c_uncheck_entry == "c-uncheck"
c_check_sector == "c-check-sector"
c_uncheck_sector == "c-uncheck-sector"
c_ccstate_sector == "c-ccstate-sector"

\* The tags t with t.startswith("c-").
CheckTags == {c_check_entry, c_uncheck_entry, c_check_sector, c_uncheck_sector, c_ccstate_sector}

\* ---- tree shape ----
Rows == 1..Len(par)

RECURSIVE AncestorsOf(_, _)
\* The strict ancestors of row i in the parent sequence p, the root 0 included.
AncestorsOf(p, i) == IF i = 0 \/ p[i] >= i THEN {} ELSE {p[i]} \cup AncestorsOf(p, p[i])

\* p numbers an ordered tree in pre-order.
IsPreorder(p) ==
    \A i \in 1..Len(p) :
        /\ p[i] < i
        /\ i > 1 => p[i] \in ({i - 1} \cup AncestorsOf(p, i - 1))

\* TreeNode.children / Treeview.get_children(i): the children in insertion order.
Children(i) == SelectSeq([k \in 1..Len(par) |-> k], LAMBDA j : par[j] = i)

ChildSet(i) == {j \in Rows : par[j] = i}

Ancestors(i) == AncestorsOf(par, i) \ {0}

Descendants(i) == {j \in Rows : i \in AncestorsOf(par, j)}

IsLeaf(i) == ChildSet(i) = {}

Leaves == {i \in Rows : IsLeaf(i)}

LeavesBelow(i) == {j \in Descendants(i) : IsLeaf(j)}

\* ---- TreeNode.compile ----
PyBool(c) == c = "True"            \* `_child.checked or False`

PyStr(b) == IF b THEN "True" ELSE "False"

RECURSIVE make(_, _)
RECURSIVE makeLoop(_, _, _, _)

\* The body of the `for _child in node` loop over the remaining children kids.
makeLoop(node, kids, chk, checks) ==
    IF kids = <<>> THEN [chk |-> chk, checks |-> checks]
    ELSE LET child == Head(kids)
             chk1 == IF chk[child] = "None" THEN [chk EXCEPT ![child] = chk[node]] ELSE chk
             checks1 == checks \cup {PyBool(chk1[child])}
             sub == make(child, chk1)
         IN makeLoop(node, Tail(kids), sub.chk, checks1 \cup sub.ret)

\* make(node): the new checked values and the set it returns; checks.pop()
\* empties the returned set when it has one element.
make(node, chk) ==
    LET r == makeLoop(node, Children(node), chk, {})
    IN IF Cardinality(r.checks) = 2
          THEN [chk |-> [r.chk EXCEPT ![node] = "None"], ret |-> r.checks]
       ELSE IF Cardinality(r.checks) = 1
          THEN [chk |-> [r.chk EXCEPT ![node] = PyStr(CHOOSE b \in r.checks : TRUE)], ret |-> {}]
       ELSE IF r.chk[node] = "None"
          THEN [chk |-> [r.chk EXCEPT ![node] = "False"], ret |-> r.checks]
       ELSE [chk |-> r.chk, ret |-> r.checks]

compile(chk) == make(0, chk).chk

\* ---- SelectTree.load(structure, restructure=True) ----
SectorIids == {i \in Rows : ~IsLeaf(i)}

LoadTags(chk) ==
    [i \in Rows |->
        IF ~IsLeaf(i)
        THEN {IF par[i] # 0 THEN t_sub_sector ELSE t_top_sector,
              IF chk[i] = "None" THEN c_ccstate_sector
              ELSE IF chk[i] = "True" THEN c_check_sector
              ELSE c_uncheck_sector}
        ELSE {t_entry, IF chk[i] = "True" THEN c_check_entry ELSE c_uncheck_entry}]

\* ---- SelectTree._change_check_tag ----
\* _change_check_tag that adds the tag and keeps the old one.
_change_check_tag_add(tg, iid, tag) == [tg EXCEPT ![iid] = tg[iid] \cup {tag}]

_change_check_tag(tg, iid, tag) ==
    LET cs == tg[iid] \cap CheckTags
        kept == IF cs = {} THEN tg[iid] ELSE tg[iid] \ {CHOOSE t \in cs : TRUE}
    IN [tg EXCEPT ![iid] = kept \cup {tag}]

\* ---- SelectTree.is_checked ----
TagsChecked(ts) == c_check_entry \in ts \/ c_check_sector \in ts

is_checked(tg, iid_path) == IF iid_path = 0 THEN FALSE ELSE TagsChecked(tg[iid_path])

\* ---- SelectTree.toggle_check ----
RECURSIVE toggle_parents(_, _, _)

\* __toggle_parents that sets the row's own tag and stops.
toggle_parents_own(tg, iid, tag) == _change_check_tag(tg, iid, tag)

toggle_parents(tg, iid, tag) ==
    LET tg1 == _change_check_tag(tg, iid, tag)
        parent == par[iid]
    IN IF parent = 0 THEN tg1
       ELSE LET states == {TagsChecked(tg1[c]) : c \in ChildSet(parent)}
                ptag == IF \A s \in states : s THEN c_check_sector
                        ELSE IF Cardinality(states) = 1 THEN c_uncheck_sector
                        ELSE c_ccstate_sector
            IN toggle_parents(tg1, parent, ptag)

RECURSIVE toggle_children(_, _, _)
RECURSIVE toggle_children_loop(_, _, _)

\* The loop of __toggle_children that leaves the tags of sectors alone.
toggle_children_loop_entries(tg, kids, check) ==
    IF kids = <<>> THEN tg
    ELSE LET c == Head(kids)
             tg1 == IF c \in all_sector_iids THEN tg
                    ELSE _change_check_tag(tg, c, IF check THEN c_check_entry ELSE c_uncheck_entry)
         IN toggle_children_loop(toggle_children(tg1, c, check), Tail(kids), check)

toggle_children_loop(tg, kids, check) ==
    IF kids = <<>> THEN tg
    ELSE LET c == Head(kids)
             tag == IF c \in all_sector_iids
                    THEN (IF check THEN c_check_sector ELSE c_uncheck_sector)
                    ELSE (IF check THEN c_check_entry ELSE c_uncheck_entry)
             tg1 == _change_check_tag(tg, c, tag)
         IN toggle_children_loop(toggle_children(tg1, c, check), Tail(kids), check)

\* toggle_children that sets the direct children only.
toggle_children_direct(tg, iid, check) ==
    [i \in DOMAIN tg |->
        IF i \in ChildSet(iid)
        THEN (tg[i] \ CheckTags) \cup
                {IF i \in all_sector_iids
                 THEN (IF check THEN c_check_sector ELSE c_uncheck_sector)
                 ELSE (IF check THEN c_check_entry ELSE c_uncheck_entry)}
        ELSE tg[i]]

toggle_children(tg, iid, check) == toggle_children_loop(tg, Children(iid), check)

\* toggle_check that returns early on the empty path.
toggle_check_noroot(tg, check, iid_path) ==
    LET tag_check == IF iid_path \in all_sector_iids THEN c_check_sector ELSE c_check_entry
        tag_uncheck == IF iid_path \in all_sector_iids THEN c_uncheck_sector ELSE c_uncheck_entry
        chk == IF check # "None" THEN PyBool(check)
               ELSE IF iid_path # 0 THEN tag_check \notin tg[iid_path]
               ELSE ~(\A c \in ChildSet(0) : c_check_sector \in tg[c])
    IN IF iid_path = 0 THEN [tags |-> tg, ret |-> chk]
       ELSE [tags |-> toggle_children(
                         toggle_parents(tg, iid_path, IF chk THEN tag_check ELSE tag_uncheck),
                         iid_path, chk),
             ret |-> chk]

\* toggle_check whose omitted desired state keeps the row's state (`not` dropped).
toggle_check_keep(tg, check, iid_path) ==
    LET tag_check == IF iid_path \in all_sector_iids THEN c_check_sector ELSE c_check_entry
        tag_uncheck == IF iid_path \in all_sector_iids THEN c_uncheck_sector ELSE c_uncheck_entry
        chk == IF check # "None" THEN PyBool(check)
               ELSE IF iid_path # 0 THEN tag_check \in tg[iid_path]
               ELSE ~(\A c \in ChildSet(0) : c_check_sector \in tg[c])
        tg1 == IF iid_path # 0
               THEN toggle_parents(tg, iid_path, IF chk THEN tag_check ELSE tag_uncheck)
               ELSE tg
    IN [tags |-> toggle_children(tg1, iid_path, chk), ret |-> chk]

\* check is "True", "False" or "None" (omitted); iid_path 0 is the empty path.
\* The result is the rows' tags and the returned boolean.
toggle_check(tg, check, iid_path) ==
    LET tag_check == IF iid_path \in all_sector_iids THEN c_check_sector ELSE c_check_entry
        tag_uncheck == IF iid_path \in all_sector_iids THEN c_uncheck_sector ELSE c_uncheck_entry
        chk == IF check # "None" THEN PyBool(check)
               ELSE IF iid_path # 0 THEN tag_check \notin tg[iid_path]
               ELSE ~(\A c \in ChildSet(0) : c_check_sector \in tg[c])
        tg1 == IF iid_path # 0
               THEN toggle_parents(tg, iid_path, IF chk THEN tag_check ELSE tag_uncheck)
               ELSE tg
    IN [tags |-> toggle_children(tg1, iid_path, chk), ret |-> chk]

\* ---- SelectTree.toggle_single_check ----
\* toggle_single_check without the purge.
toggle_single_check_nopurge(tg, check, iid_path) ==
    LET chk == IF check = "None" THEN ~is_checked(tg, iid_path) ELSE PyBool(check)
    IN [tags |-> toggle_check(tg, PyStr(chk), iid_path).tags, ret |-> chk]

toggle_single_check(tg, check, iid_path) ==
    LET chk == IF check = "None" THEN ~is_checked(tg, iid_path) ELSE PyBool(check)
        purged == toggle_check(tg, "False", 0).tags
    IN [tags |-> toggle_check(purged, PyStr(chk), iid_path).tags, ret |-> chk]

\* ---- SelectTree.get_checked ----
RECURSIVE get(_, _)
RECURSIVE get_loop(_, _)

get_loop(tg, kids) ==
    IF kids = <<>> THEN <<>> ELSE get(tg, Head(kids)) \o get_loop(tg, Tail(kids))

\* get that also descends below a checked sector.
get_below_checked(tg, iid) ==
    IF TagsChecked(tg[iid]) THEN <<iid>> \o get_loop(tg, Children(iid))
    ELSE IF c_ccstate_sector \in tg[iid] THEN get_loop(tg, Children(iid))
    ELSE <<>>

\* get that does not descend into a mixed sector.
get_flat(tg, iid) == IF TagsChecked(tg[iid]) THEN <<iid>> ELSE <<>>

get(tg, iid) ==
    IF TagsChecked(tg[iid]) THEN <<iid>>
    ELSE IF c_ccstate_sector \in tg[iid] THEN get_loop(tg, Children(iid))
    ELSE <<>>

get_checked == get_loop(tags, Children(0))

\* ---- the state machine ----
CheckedValues == {"True", "False", "None"}

Call(op, check, iid_path, was, ret) ==
    [op |-> op, check |-> check, iid_path |-> iid_path, was |-> was, ret |-> ret]

NoCall == Call("none", "None", 0, FALSE, FALSE)

\* The child process before TkBgServer.__call__ has started it.
NoChild == [sock |-> "None", server_address |-> 0, pc |-> "none", accepted |-> 0,
            sent |-> <<>>]

\* A TkBgServer that has no address pool and was never called.
ServerUnused ==
    /\ address_pool = <<>>
    /\ bind_errno = <<>>
    /\ sock = "None"
    /\ server_address = 0
    /\ binds = <<>>
    /\ raised = "None"
    /\ receiver = "None"
    /\ process = "None"
    /\ proc = NoChild

\* No `with` block has been entered.
NoScope == [recv |-> 0, at |-> "none", entered |-> "None", raised |-> "None"]

\* The server object was never called: no process, no receiver.
TransportUnused ==
    /\ listener = "None"
    /\ backlog = <<>>
    /\ processes = <<>>
    /\ receivers = <<>>
    /\ scope = NoScope

\* TreeNodes built with the same label, opened left at its default False.
PlainLabel == <<"a">>

PlainWidget ==
    /\ label = [i \in 1..Len(par) |-> PlainLabel]
    /\ opened = [i \in 1..Len(par) |-> FALSE]
    /\ selection = 0
    /\ searched = <<>>
    /\ match_end = <<FALSE, FALSE>>

\* The caller has built a tree of at most MaxNodes TreeNodes, each with
\* checked given as True or False or left unset.
Init ==
    /\ \E n \in 0..MaxNodes :
          /\ par \in [1..n -> 0..MaxNodes]
          /\ IsPreorder(par)
          /\ \E c \in [1..n -> CheckedValues] :
                checked = [i \in 0..n |-> IF i = 0 THEN "None" ELSE c[i]]
    /\ tags = <<>>
    /\ all_sector_iids = {}
    /\ pc = "new"
    /\ last = NoCall
    /\ PlainWidget
    /\ ServerUnused
    /\ TransportUnused

\* SelectTree.__init__: load(structure, restructure=True).
Load ==
    /\ pc = "new"
    /\ pc' = "loaded"
    /\ checked' = compile(checked)
    /\ tags' = LoadTags(checked')
    /\ all_sector_iids' = SectorIids
    /\ last' = Call("load", "None", 0, FALSE, FALSE)
    /\ UNCHANGED <<par, widget, server, transport>>

ToggleCheck(check, iid_path) ==
    /\ pc = "loaded"
    /\ LET r == toggle_check(tags, check, iid_path)
       IN /\ tags' = r.tags
          /\ last' = Call("toggle_check", check, iid_path, is_checked(tags, iid_path), r.ret)
    /\ UNCHANGED <<par, checked, all_sector_iids, pc, widget, server, transport>>

ToggleSingleCheck(check, iid_path) ==
    /\ pc = "loaded"
    /\ LET r == toggle_single_check(tags, check, iid_path)
       IN /\ tags' = r.tags
          /\ last' = Call("toggle_single_check", check, iid_path, is_checked(tags, iid_path), r.ret)
    /\ UNCHANGED <<par, checked, all_sector_iids, pc, widget, server, transport>>

Next ==
    \/ Load
    \/ \E check \in CheckedValues, iid_path \in 0..Len(par) : ToggleCheck(check, iid_path)
    \/ \E check \in CheckedValues, iid_path \in 0..Len(par) : ToggleSingleCheck(check, iid_path)

Spec == Init /\ [][Next]_vars

\* ---- the tree of the end-to-end example: [A, B(checked), C:[D, E]] ----
ExamplePar == <<0, 0, 0, 3, 3>>

ExampleChecked == [i \in 0..5 |-> IF i = 2 THEN "True" ELSE "None"]

InitExample ==
    /\ par = ExamplePar
    /\ checked = ExampleChecked
    /\ tags = <<>>
    /\ all_sector_iids = {}
    /\ pc = "new"
    /\ last = NoCall
    /\ PlainWidget
    /\ ServerUnused
    /\ TransportUnused

SpecExample == InitExample /\ [][Next]_vars

\* ---- vocabulary of the properties ----
RowState(tg, i) ==
    IF TagsChecked(tg[i]) THEN "checked"
    ELSE IF c_ccstate_sector \in tg[i] THEN "mixed"
    ELSE IF c_uncheck_entry \in tg[i] \/ c_uncheck_sector \in tg[i] THEN "unchecked"
    ELSE "none"

\* checked / unchecked on unanimity, mixed otherwise.
Aggregate(states) ==
    IF states = {"checked"} THEN "checked"
    ELSE IF states = {"unchecked"} THEN "unchecked"
    ELSE "mixed"

Range(s) == {s[k] : k \in 1..Len(s)}

RECURSIVE Ascending(_)
\* The rows of the set S in insertion (traversal) order.
Ascending(S) ==
    IF S = {} THEN <<>>
    ELSE LET m == CHOOSE x \in S : \A y \in S : x <= y
         IN <<m>> \o Ascending(S \ {m})

Toggled == last.op = "toggle_check" /\ last.iid_path # 0

\* C1: after toggle_check on a row, every ancestor of the row is checked iff
\* all its direct children are checked, unchecked iff all are unchecked, and
\* mixed otherwise.
C1_AncestorsAggregated ==
    Toggled =>
        \A a \in Ancestors(last.iid_path) :
            RowState(tags, a) = Aggregate({RowState(tags, c) : c \in ChildSet(a)})

\* C2: after compile, a node with children is None iff its descendant leaves
\* are not uniformly checked, True iff all are checked, False iff all are
\* unchecked, and no leaf is None.
C2_CompileAggregates ==
    pc = "loaded" =>
        \A i \in Rows :
            IF IsLeaf(i) THEN checked[i] # "None"
            ELSE LET vals == {checked[l] : l \in LeavesBelow(i)}
                 IN checked[i] = (IF vals = {"True"} THEN "True"
                                  ELSE IF vals = {"False"} THEN "False"
                                  ELSE "None")

\* C3: toggle_check on a sector gives the sector and every descendant row the
\* resulting state: the sector tag for sectors, the entry tag for entries.
C3_SectorForcesDescendants ==
    (Toggled /\ last.iid_path \in all_sector_iids) =>
        \A d \in {last.iid_path} \cup Descendants(last.iid_path) :
            tags[d] \cap CheckTags =
                {IF d \in all_sector_iids
                 THEN (IF last.ret THEN c_check_sector ELSE c_uncheck_sector)
                 ELSE (IF last.ret THEN c_check_entry ELSE c_uncheck_entry)}

\* A sector with a sub-sector below it was unchecked by a call that
\* found it checked, or checked by a call that found it not checked.
C3_Witness ==
    /\ Toggled
    /\ last.iid_path \in all_sector_iids
    /\ \E d \in Descendants(last.iid_path) : d \in all_sector_iids
    /\ last.was # last.ret
    /\ last.check # "None"

\* C4: get_checked() is, in traversal order, exactly the rows that are checked
\* and all of whose strict ancestors are mixed.
C4_GetCheckedExact ==
    pc = "loaded" =>
        get_checked = Ascending({i \in Rows :
                          /\ RowState(tags, i) = "checked"
                          /\ \A a \in Ancestors(i) : RowState(tags, a) = "mixed"})

\* get_checked() descends into a mixed sector and returns a row below it,
\* while a checked row below a sector that is not mixed is left out.
C4_Witness ==
    /\ pc = "loaded"
    /\ \E i \in Range(get_checked) : Ancestors(i) # {}
    /\ \E i \in Rows :
          /\ RowState(tags, i) = "checked"
          /\ i \notin Range(get_checked)

\* ---- the end-to-end example (rows A = 1, B = 2, C = 3, D = 4, E = 5) ----
\* The call before was the load, and this call sets C to checked.
LoadedThenC ==
    /\ last.op = "load"
    /\ last'.op = "toggle_check" /\ last'.iid_path = 3 /\ last'.check = "True"

\* C5 as stated: toggling C to checked in the loaded example makes
\* get_checked() return [C].
C5_GetCheckedIsC == [][LoadedThenC => get_checked' = <<3>>]_vars

\* C5 as amended: toggling C to checked in the loaded example makes
\* get_checked() return [B, C]: B stays checked, D and E are absorbed by C.
C5_GetCheckedIsBC == [][LoadedThenC => get_checked' = <<2, 3>>]_vars

\* C was set to checked and get_checked() is [B, C].
C5_Witness ==
    /\ par = ExamplePar
    /\ last.op = "toggle_check" /\ last.iid_path = 3 /\ last.check = "True"
    /\ get_checked = <<2, 3>>
    /\ \A d \in {4, 5} : RowState(tags, d) = "checked"

\* The example after its load and the toggle of C to checked: that call was
\* the last one, A is unchecked and B, C, D, E are checked.
AfterLoadAndC ==
    /\ last.op = "toggle_check" /\ last.iid_path = 3 /\ last.check = "True"
    /\ [i \in Rows |-> RowState(tags, i)] =
          <<"unchecked", "checked", "checked", "checked", "checked">>

\* C6: in the loaded example get_checked() is [B]; toggling C to checked
\* leads to the state AfterLoadAndC, and toggling D off there makes C mixed
\* and get_checked() [B, E].
C6_EndToEnd ==
    /\ [](last.op = "load" => get_checked = <<2>>)
    /\ [][LoadedThenC => AfterLoadAndC']_vars
    /\ [][(/\ AfterLoadAndC
           /\ last'.op = "toggle_check" /\ last'.iid_path = 4
           /\ last'.check \in {"False", "None"})
          => (RowState(tags', 3) = "mixed" /\ get_checked' = <<2, 5>>)]_vars

\* D was toggled off, C is mixed and get_checked() is [B, E].
C6_Witness ==
    /\ par = ExamplePar
    /\ last.op = "toggle_check" /\ last.iid_path = 4 /\ last.was /\ ~last.ret
    /\ RowState(tags, 3) = "mixed"
    /\ get_checked = <<2, 5>>

\* C7: after toggling the empty path (the root) to checked, get_checked()
\* is the top-level rows, each once, and every leaf is reported exactly
\* once, by itself or through one sector above it.
C7_RootCheckedCoversLeaves ==
    (last.op = "toggle_check" /\ last.iid_path = 0 /\ last.check = "True") =>
        /\ get_checked = Children(0)
        /\ Len(get_checked) = Cardinality(Range(get_checked))
        /\ \A l \in Leaves :
              Cardinality(({l} \cup Ancestors(l)) \cap Range(get_checked)) = 1

\* The root of a tree with a top-level leaf and a sub-sector was toggled
\* to checked.
C7_Witness ==
    /\ last.op = "toggle_check" /\ last.iid_path = 0 /\ last.check = "True"
    /\ \E l \in Leaves : par[l] = 0
    /\ \E i \in all_sector_iids : par[i] # 0
    /\ get_checked # <<>>

\* C8: after toggle_single_check(check, p) every leaf outside the subtree
\* of p is unchecked and p has the state the call returned.
C8_SingleClearsOthers ==
    last.op = "toggle_single_check" =>
        LET p == last.iid_path
        IN /\ \A l \in Leaves \ ({p} \cup Descendants(p)) : RowState(tags, l) = "unchecked"
           /\ p # 0 => RowState(tags, p) = (IF last.ret THEN "checked" ELSE "unchecked")

\* A single check of a sector that has leaves outside its subtree.
C8_Witness ==
    /\ last.op = "toggle_single_check"
    /\ last.iid_path \in all_sector_iids
    /\ last.ret
    /\ Leaves \ Descendants(last.iid_path) # {}

\* C9: toggle_check on a row with the desired state omitted leaves a row
\* that was checked unchecked and a row that was not checked checked, and
\* the returned boolean is the row's checked state after every toggle_check.
C9_OmittedInverts ==
    Toggled =>
        /\ last.check = "None" =>
              RowState(tags, last.iid_path) = (IF last.was THEN "unchecked" ELSE "checked")
        /\ last.ret <=> RowState(tags, last.iid_path) = "checked"

\* A sector that was not checked was toggled with the desired state omitted.
C9_Witness ==
    /\ Toggled
    /\ last.check = "None"
    /\ last.iid_path \in all_sector_iids
    /\ ~last.was
    /\ RowState(tags, last.iid_path) = "checked"

\* C10 as stated: a toggle_check call with the empty path leaves the tags of
\* every row unchanged.
C10_EmptyPathNoOp ==
    [][(last'.op = "toggle_check" /\ last'.iid_path = 0) => tags' = tags]_vars

\* C10 as amended: a toggle_check call with the empty path gives every row
\* the state it returns, which is the desired state when one is given.
C10_EmptyPathSetsAll ==
    (last.op = "toggle_check" /\ last.iid_path = 0) =>
        /\ \A i \in Rows :
              tags[i] \cap CheckTags =
                  {IF i \in all_sector_iids
                   THEN (IF last.ret THEN c_check_sector ELSE c_uncheck_sector)
                   ELSE (IF last.ret THEN c_check_entry ELSE c_uncheck_entry)}
        /\ last.check # "None" => last.ret = PyBool(last.check)

\* The empty path was toggled with the desired state omitted while every
\* top-level row was a checked sector: all rows, leaves included, are now
\* unchecked.
C10_Witness ==
    /\ last.op = "toggle_check" /\ last.iid_path = 0
    /\ last.check = "None" /\ ~last.ret
    /\ Leaves # {}

\* ---- SelectTree.get / SelectTree.dump ----
\* The checked value get() gives the TreeNode copy of a row.
get_node_checked(ts) ==
    IF c_ccstate_sector \in ts THEN "None" ELSE PyStr(TagsChecked(ts))

\* dump(): the copies get() makes of every row, nested as the rows are.  The
\* TreeNode constructor leaves `parent` at the class attribute None; only
\* TreeNode.compile sets it.
dump ==
    [par |-> par,
     label |-> label,
     tags |-> tags,
     opened |-> opened,
     checked |-> [i \in 0..Len(par) |-> IF i = 0 THEN "None" ELSE get_node_checked(tags[i])],
     parent |-> [i \in 1..Len(par) |-> "None"]]

\* ---- SelectTree.load(structure, restructure=False) ----
HasChildren(d, i) == \E j \in 1..Len(d.par) : d.par[j] = i

\* The rows whose insertion is followed by the read of `_node.parent.parent`
\* on a node whose parent is None: it raises AttributeError.
FailingRows(d) == {i \in 1..Len(d.par) : HasChildren(d, i) /\ d.parent[i] = "None"}

\* The rows are inserted in pre-order; the first failing row is inserted
\* before the exception leaves load, the rows after it are not.
load_plain(d) ==
    IF FailingRows(d) = {}
    THEN [ok |-> TRUE, rows |-> Len(d.par),
          sectors |-> {i \in 1..Len(d.par) : HasChildren(d, i)}]
    ELSE [ok |-> FALSE,
          rows |-> CHOOSE k \in FailingRows(d) : \A j \in FailingRows(d) : k <= j,
          sectors |-> all_sector_iids]

\* tree.load(tree.dump()): the round trip of the widget's dump and load.
LoadDump ==
    /\ pc = "loaded"
    /\ LET d == dump
           r == load_plain(d)
       IN /\ par' = SubSeq(d.par, 1, r.rows)
          /\ label' = SubSeq(d.label, 1, r.rows)
          /\ tags' = SubSeq(d.tags, 1, r.rows)
          /\ opened' = SubSeq(d.opened, 1, r.rows)
          /\ checked' = d.checked
          /\ all_sector_iids' = r.sectors
          /\ pc' = IF r.ok THEN "loaded" ELSE "failed"
          /\ last' = Call("load_dump", "None", 0, FALSE, r.ok)
    /\ selection' = 0
    /\ UNCHANGED <<match_end, searched, server, transport>>

\* The largest number of TreeNodes of the trees that are dumped.
MaxDumpNodes == 3

\* The caller has built a tree of at most MaxDumpNodes TreeNodes, each with
\* checked and opened given or left unset.
InitDump ==
    /\ \E n \in 0..MaxDumpNodes :
          /\ par \in [1..n -> 0..MaxDumpNodes]
          /\ IsPreorder(par)
          /\ \E c \in [1..n -> CheckedValues] :
                checked = [i \in 0..n |-> IF i = 0 THEN "None" ELSE c[i]]
          /\ opened \in [1..n -> BOOLEAN]
    /\ tags = <<>>
    /\ all_sector_iids = {}
    /\ pc = "new"
    /\ last = NoCall
    /\ label = [i \in 1..Len(par) |-> PlainLabel]
    /\ selection = 0
    /\ searched = <<>>
    /\ match_end = <<FALSE, FALSE>>
    /\ ServerUnused
    /\ TransportUnused

NextDump ==
    \/ Load
    \/ \E check \in CheckedValues, iid_path \in 0..Len(par) : ToggleCheck(check, iid_path)
    \/ \E check \in CheckedValues, iid_path \in 0..Len(par) : ToggleSingleCheck(check, iid_path)
    \/ LoadDump

SpecDump == InitDump /\ [][NextDump]_vars

\* C11: load(dump()) succeeds and leaves every row as it was: the same rows
\* with the same parents (identity paths), labels, tags (check state
\* included) and open state.
C11_RoundTrip ==
    [][last'.op = "load_dump" =>
          /\ pc' = "loaded"
          /\ par' = par
          /\ label' = label
          /\ tags' = tags
          /\ opened' = opened
          /\ all_sector_iids' = all_sector_iids]_vars

\* C12: in every state after the compiled load and any toggle_check /
\* toggle_single_check calls, each row carries exactly one check tag: a leaf
\* row c-check or c-uncheck, a sector row c-check-sector, c-uncheck-sector or
\* c-ccstate-sector.
C12_OneCheckTag ==
    pc = "loaded" =>
        \A i \in Rows :
            /\ Cardinality(tags[i] \cap CheckTags) = 1
            /\ IF IsLeaf(i)
               THEN tags[i] \cap CheckTags \subseteq {c_check_entry, c_uncheck_entry}
               ELSE tags[i] \cap CheckTags \subseteq
                        {c_check_sector, c_uncheck_sector, c_ccstate_sector}

\* A toggle_single_check call has left a mixed sector above a checked leaf
\* and an unchecked leaf.
C12_Witness ==
    /\ last.op = "toggle_single_check"
    /\ \E i \in all_sector_iids :
          /\ RowState(tags, i) = "mixed"
          /\ \E l \in ChildSet(i) : IsLeaf(l) /\ RowState(tags, l) = "checked"
          /\ \E l \in ChildSet(i) : IsLeaf(l) /\ RowState(tags, l) = "unchecked"

\* ---- TagsConfig: the search tags ----
m_match_entry == "m-1-entry"
m_match_sector == "m-1-sector"
m_hint_sector == "m-2-sector"
m_match_and_hint_sector == "m-3-sector"

\* The tags t with t.startswith("m-") that _add_match_tag can build.
MatchTags == {"m-1-entry", "m-2-entry", "m-3-entry", "m-1-sector", "m-2-sector", "m-3-sector"}

\* int(t[2]) of a search tag.
MatchBits(t) ==
    IF t \in {"m-1-entry", "m-1-sector"} THEN 1
    ELSE IF t \in {"m-2-entry", "m-2-sector"} THEN 2
    ELSE 3

\* t[3:] of a search tag.
MatchSuffix(t) == IF t \in {"m-1-entry", "m-2-entry", "m-3-entry"} THEN "-entry" ELSE "-sector"

\* a | b for a, b in 1..3.
BitOr(a, b) == IF a = b THEN a ELSE 3

\* "m-%s%s" % (bits, suffix)
MatchTag(bits, suffix) ==
    IF suffix = "-entry"
    THEN (IF bits = 1 THEN "m-1-entry" ELSE IF bits = 2 THEN "m-2-entry" ELSE "m-3-entry")
    ELSE (IF bits = 1 THEN "m-1-sector" ELSE IF bits = 2 THEN "m-2-sector" ELSE "m-3-sector")

\* ---- SelectTree._reset_match_tag / _add_match_tag ----
_reset_match_tag(tg, iid) ==
    LET ms == tg[iid] \cap MatchTags
    IN IF ms = {} THEN tg ELSE [tg EXCEPT ![iid] = tg[iid] \ {CHOOSE t \in ms : TRUE}]

\* _add_match_tag that replaces the tag the row has instead of merging with it.
_add_match_tag_replace(tg, iid, tag) == [tg EXCEPT ![iid] = (tg[iid] \ MatchTags) \cup {tag}]

_add_match_tag(tg, iid, tag) ==
    LET ms == tg[iid] \cap MatchTags
    IN IF ms = {} THEN [tg EXCEPT ![iid] = tg[iid] \cup {tag}]
       ELSE LET t == CHOOSE x \in ms : TRUE
                merged == MatchTag(BitOr(MatchBits(t), MatchBits(tag)), MatchSuffix(t))
            IN [tg EXCEPT ![iid] = (tg[iid] \ {t}) \cup {merged}]

\* ---- SelectTree.remove_match_tags ----
RECURSIVE rm(_, _)
\* The loop of rm over the remaining children kids.
rm(tg, kids) ==
    IF kids = <<>> THEN tg
    ELSE rm(rm(_reset_match_tag(tg, Head(kids)), Children(Head(kids))), Tail(kids))

remove_match_tags(tg) == rm(tg, Children(0))

\* ---- SelectTree.search ----
\* re.search(pattern, text) for a pattern of literal characters: the pattern
\* occurs in the text.
re_search(pattern, text) ==
    \E k \in 0..(Len(text) - Len(pattern)) : SubSeq(text, k + 1, k + Len(pattern)) = pattern

RECURSIVE parentref(_, _)
parentref(tg, iid) ==
    IF par[iid] = 0 THEN tg
    ELSE parentref(_add_match_tag(tg, par[iid], m_hint_sector), par[iid])

RECURSIVE _search(_, _, _)
\* The loop of _search over the remaining children kids; st is the tags and
\* the nonlocal `match`.
_search(st, kids, pattern) ==
    IF kids = <<>> THEN st
    ELSE LET c == Head(kids)
             st1 == IF re_search(pattern, label[c])
                    THEN [tags |-> parentref(
                                     _add_match_tag(st.tags, c,
                                         IF c \in all_sector_iids THEN m_match_sector
                                         ELSE m_match_entry),
                                     c),
                          match |-> TRUE]
                    ELSE st
         IN _search(_search(st1, Children(c), pattern), Tail(kids), pattern)

\* search that does not purge the tags of the search before.
search_nopurge(tg, pattern) == _search([tags |-> tg, match |-> FALSE], Children(0), pattern)

\* search(pattern): the rows' tags and the returned `match`.
search(tg, pattern) ==
    _search([tags |-> remove_match_tags(tg), match |-> FALSE], Children(0), pattern)

\* ---- SelectTree.get_matches ----
RECURSIVE find_entries(_, _)
\* find of the branch `if scip_sectors`, over the remaining children kids.
find_entries(tg, kids) ==
    IF kids = <<>> THEN <<>>
    ELSE LET c == Head(kids)
         IN (IF m_match_entry \in tg[c] THEN <<c>> ELSE find_entries(tg, Children(c)))
            \o find_entries(tg, Tail(kids))

RECURSIVE find_matches(_, _)
\* find of the branch `elif scip_hints`.
find_matches(tg, kids) ==
    IF kids = <<>> THEN <<>>
    ELSE LET c == Head(kids)
         IN (IF tg[c] \cap {m_match_entry, m_match_sector, m_match_and_hint_sector} # {}
             THEN <<c>> ELSE <<>>)
            \o find_matches(tg, Children(c))
            \o find_matches(tg, Tail(kids))

RECURSIVE find_tagged(_, _)
\* find of the last branch: the row is appended once for each of its m- tags.
find_tagged(tg, kids) ==
    IF kids = <<>> THEN <<>>
    ELSE LET c == Head(kids)
         IN [k \in 1..Cardinality(tg[c] \cap MatchTags) |-> c]
            \o find_tagged(tg, Children(c))
            \o find_tagged(tg, Tail(kids))

\* get_matches that ignores scip_hints.
get_matches_hints(tg, scip_hints, scip_sectors) ==
    IF scip_sectors THEN find_entries(tg, Children(0)) ELSE find_tagged(tg, Children(0))

\* get_matches("", scip_hints, scip_sectors): the iid_paths of the returned TreeNodes.
get_matches(tg, scip_hints, scip_sectors) ==
    IF scip_sectors THEN find_entries(tg, Children(0))
    ELSE IF scip_hints THEN find_matches(tg, Children(0))
    ELSE find_tagged(tg, Children(0))

\* ---- SelectTree.get_linear_iid_path_list ----
RECURSIVE add(_)
RECURSIVE add_loop(_)
\* The loop of add over the remaining children kids: each child is appended
\* by the loop and again by its own add.
add_loop(kids) ==
    IF kids = <<>> THEN <<>> ELSE <<Head(kids)>> \o add(Head(kids)) \o add_loop(Tail(kids))

add(iid) == <<iid>> \o add_loop(Children(iid))

get_linear_iid_path_list == Tail(add(0))

\* ---- SelectTree.get_next_match ----
Reverse(q) == [k \in 1..Len(q) |-> q[Len(q) + 1 - k]]

\* list.index: the first position of x in q; 0 stands for the ValueError.
IndexOf(q, x) ==
    IF \E k \in 1..Len(q) : q[k] = x
    THEN CHOOSE k \in 1..Len(q) : q[k] = x /\ \A j \in 1..(k - 1) : q[j] # x
    ELSE 0

\* What get_next_match returns or raises.
RetNode(i) == [kind |-> "TreeNode", iid_path |-> i]
RetNone == [kind |-> "None", iid_path |-> 0]
RetFalse == [kind |-> "False", iid_path |-> 0]
RaisedValueError == [kind |-> "ValueError", iid_path |-> 0]

\* start_iid_path is <<>> for None and <<i>> for the iid_path of row i (0 is "").
\* matches holds TreeNodes and the start is a str, so matches.index(start)
\* raises ValueError and the handler of ValueError does the work.
get_next_match(tg, start_iid_path, scip_hints, scip_sectors, reverse, back_to_begin) ==
    LET found == get_matches(tg, scip_hints, scip_sectors)
        start == IF start_iid_path = <<>> THEN selection ELSE start_iid_path[1]
        matches == IF reverse THEN Reverse(found) ELSE found
        main_list == IF reverse THEN Reverse(get_linear_iid_path_list)
                     ELSE get_linear_iid_path_list
        from == IndexOf(main_list, start)
        hits == {k \in from..Len(main_list) : IndexOf(matches, main_list[k]) # 0}
    IN IF found = <<>> THEN RetFalse
       ELSE IF from = 0 THEN RaisedValueError
       ELSE IF hits # {} THEN RetNode(main_list[CHOOSE k \in hits : \A j \in hits : k <= j])
       ELSE IF back_to_begin THEN RetNode(matches[1])
       ELSE RetNone

\* ---- the state machine of the search ----
Query(op, args, ret) == [op |-> op, args |-> args, ret |-> ret]

Labels == {<<"a">>, <<"b">>, <<"a", "b">>}

Patterns == {<<"a">>, <<"b">>}

Search(pattern) ==
    /\ pc = "loaded"
    /\ LET r == search(tags, pattern)
       IN /\ tags' = r.tags
          /\ last' = Query("search", [pattern |-> pattern], r.match)
    /\ searched' = pattern
    /\ UNCHANGED <<match_end, par, checked, all_sector_iids, pc, label, opened, selection, server, transport>>

GetMatches(scip_hints, scip_sectors) ==
    /\ pc = "loaded"
    /\ last' = Query("get_matches",
                     [scip_hints |-> scip_hints, scip_sectors |-> scip_sectors],
                     get_matches(tags, scip_hints, scip_sectors))
    /\ UNCHANGED <<par, checked, tags, all_sector_iids, pc, widget, server, transport>>

\* SelectTree.set_selection / a click on a row.
SetSelection(iid_path) ==
    /\ pc = "loaded"
    /\ selection' = iid_path
    /\ last' = Query("set_selection", [iid_path |-> iid_path], TRUE)
    /\ UNCHANGED <<match_end, par, checked, tags, all_sector_iids, pc, label, opened, searched, server, transport>>

\* get_next_match(start_iid_path, reverse=reverse, back_to_begin=back_to_begin)
GetNextMatch(start_iid_path, reverse, back_to_begin) ==
    /\ pc = "loaded"
    /\ last' = Query("get_next_match",
                     [start_iid_path |-> start_iid_path, reverse |-> reverse,
                      back_to_begin |-> back_to_begin],
                     get_next_match(tags, start_iid_path, TRUE, FALSE, reverse, back_to_begin))
    /\ UNCHANGED <<par, checked, tags, all_sector_iids, pc, widget, server, transport>>

\* selection_to_next_match(reverse=reverse, back_to_begin=back_to_begin)
SelectionToNextMatch(reverse, back_to_begin) ==
    /\ pc = "loaded"
    /\ LET match == get_next_match(tags, <<>>, TRUE, FALSE, reverse, back_to_begin)
       IN /\ selection' = IF match.kind = "TreeNode" THEN match.iid_path ELSE selection
          /\ last' = Query("selection_to_next_match",
                           [start_iid_path |-> <<selection>>, reverse |-> reverse,
                            back_to_begin |-> back_to_begin],
                           match)
    /\ UNCHANGED <<match_end, par, checked, tags, all_sector_iids, pc, label, opened, searched, server, transport>>

\* The largest number of TreeNodes of the trees that are searched.
MaxSearchNodes == 3

\* The caller has built a tree of at most MaxSearchNodes labelled TreeNodes.
InitSearch ==
    /\ \E n \in 0..MaxSearchNodes :
          /\ par \in [1..n -> 0..MaxSearchNodes]
          /\ IsPreorder(par)
          /\ label \in [1..n -> Labels]
          /\ checked = [i \in 0..n |-> "None"]
          /\ opened = [i \in 1..n |-> FALSE]
    /\ tags = <<>>
    /\ all_sector_iids = {}
    /\ pc = "new"
    /\ last = NoCall
    /\ selection = 0
    /\ searched = <<>>
    /\ match_end = <<FALSE, FALSE>>
    /\ ServerUnused
    /\ TransportUnused

NextSearch ==
    \/ Load
    \/ \E pattern \in Patterns : Search(pattern)
    \/ \E scip_hints \in BOOLEAN, scip_sectors \in BOOLEAN : GetMatches(scip_hints, scip_sectors)
    \/ \E iid_path \in Rows : SetSelection(iid_path)
    \/ \E start \in {<<>>} \cup {<<i>> : i \in 0..Len(par)}, reverse \in BOOLEAN,
          back_to_begin \in BOOLEAN : GetNextMatch(start, reverse, back_to_begin)
    \/ \E reverse \in BOOLEAN, back_to_begin \in BOOLEAN :
          SelectionToNextMatch(reverse, back_to_begin)

SpecSearch == InitSearch /\ [][NextSearch]_vars

\* ---- vocabulary of the search properties ----
\* The label of row i matches the pattern p.
SelfMatch(p, i) == re_search(p, label[i])

\* The label of a strict descendant of row i matches the pattern p.
HintMatch(p, i) == \E d \in Descendants(i) : re_search(p, label[d])

\* The search tag the rows of a searched tree should carry.
ExpectedMatchTags(p, i) ==
    IF SelfMatch(p, i) /\ HintMatch(p, i) THEN {m_match_and_hint_sector}
    ELSE IF SelfMatch(p, i) THEN {IF IsLeaf(i) THEN m_match_entry ELSE m_match_sector}
    ELSE IF HintMatch(p, i) THEN {m_hint_sector}
    ELSE {}

\* C13: after search(p), whatever tags earlier searches left, a row carries
\* the match tag iff its own label matches p, the hint tag iff the label of a
\* strict descendant matches p, the combined tag when both, and no search tag
\* otherwise; search returns whether a label matched; and search(p) called
\* again with the same pattern changes no tag.
C13_SearchTagsExact ==
    /\ [](last.op = "search" =>
            /\ \A i \in Rows : tags[i] \cap MatchTags = ExpectedMatchTags(last.args.pattern, i)
            /\ last.ret <=> \E i \in Rows : SelfMatch(last.args.pattern, i))
    /\ [][(/\ last.op = "search" /\ last'.op = "search"
           /\ last'.args.pattern = last.args.pattern) => tags' = tags]_vars

\* A search has tagged a sector with the combined tag and another with the
\* hint tag only, in a tree where another pattern matches other rows.
C13_Witness ==
    /\ last.op = "search"
    /\ \E i \in Rows : m_match_and_hint_sector \in tags[i]
    /\ \E i \in Rows : m_hint_sector \in tags[i]
    /\ \E q \in Patterns \ {last.args.pattern} : \E i \in Rows : SelfMatch(q, i)

\* ---- vocabulary of the get_next_match properties ----
\* The call get_next_match made last, with the default scip flags.
NextMatchCalled == last.op = "get_next_match"

\* The row the last get_next_match call started from.
StartRow ==
    IF last.args.start_iid_path = <<>> THEN selection ELSE last.args.start_iid_path[1]

\* The matches in the direction of the last get_next_match call.
DirectedMatches ==
    IF last.args.reverse THEN Reverse(get_matches(tags, TRUE, FALSE))
    ELSE get_matches(tags, TRUE, FALSE)

\* C14: when the start row of get_next_match is a match that is not the last
\* one in the chosen direction, the call returns the match that follows the
\* start row in that direction.
C14_NextAfterStart ==
    (/\ NextMatchCalled
     /\ IndexOf(DirectedMatches, StartRow) # 0
     /\ IndexOf(DirectedMatches, StartRow) < Len(DirectedMatches))
    => last.ret = RetNode(DirectedMatches[IndexOf(DirectedMatches, StartRow) + 1])

\* C15: when the start row of get_next_match is the last match in the chosen
\* direction, the call returns None without back_to_begin and the first
\* match of that direction with it.
C15_EndOfMatches ==
    (/\ NextMatchCalled
     /\ DirectedMatches # <<>>
     /\ IndexOf(DirectedMatches, StartRow) = Len(DirectedMatches))
    => last.ret = (IF last.args.back_to_begin THEN RetNode(DirectedMatches[1]) ELSE RetNone)

\* C16: get_matches returns rows in pre-order, each at most once: with the
\* default flags the rows whose own label matched the pattern searched for;
\* with scip_hints off also the sectors that only carry a hint; with
\* scip_sectors on the matching leaf rows only, those below a matching sector
\* included.
C16_GetMatchesFiltered ==
    last.op = "get_matches" =>
        last.ret = Ascending(
            IF searched = <<>> THEN {}
            ELSE IF last.args.scip_sectors
                 THEN {i \in Rows : IsLeaf(i) /\ SelfMatch(searched, i)}
            ELSE IF last.args.scip_hints
                 THEN {i \in Rows : SelfMatch(searched, i)}
            ELSE {i \in Rows : SelfMatch(searched, i) \/ HintMatch(searched, i)})

\* get_matches with scip_sectors returned a matching leaf below a matching
\* sector, in a tree that also has a sector carrying a hint only.
C16_Witness ==
    /\ last.op = "get_matches"
    /\ last.args.scip_sectors
    /\ \E i \in Range(last.ret) : \E a \in Ancestors(i) : SelfMatch(searched, a)
    /\ \E i \in Rows : m_hint_sector \in tags[i]

\* ---- SelectTree.expand_for_match ----
\* expand_for_match that opens the rows that match and leaves the rows that
\* carry a hint only.
expand_for_match_nohint(tg, opn) ==
    [i \in DOMAIN opn |-> opn[i] \/ (tg[i] \cap MatchTags) \ {m_hint_sector} # {}]

RECURSIVE x(_, _, _)
\* The loop of x over the remaining children kids: a row with an m- tag is
\* opened, then its children are visited.
x(tg, opn, kids) ==
    IF kids = <<>> THEN opn
    ELSE LET c == Head(kids)
             opn1 == IF tg[c] \cap MatchTags # {} THEN [opn EXCEPT ![c] = TRUE] ELSE opn
         IN x(tg, x(tg, opn1, Children(c)), Tail(kids))

expand_for_match(tg, opn) == x(tg, opn, Children(0))

\* ---- SelectTree.toggle_recursive_expand(start_iid="", expand) ----
\* expand is "None" when omitted.  Every iid_path starts with "", so every
\* sector gets the open state; the result is the rows' open option and the
\* returned boolean.
toggle_recursive_expand(opn, expand) ==
    LET exp == IF expand # "None" THEN PyBool(expand)
               ELSE ~(\E sector \in all_sector_iids : par[sector] = 0 /\ opn[sector])
    IN [opened |-> [i \in DOMAIN opn |-> IF i \in all_sector_iids THEN exp ELSE opn[i]],
        ret |-> exp]

\* ---- the state machine of the expansion ----
ExpandForMatch ==
    /\ pc = "loaded"
    /\ opened' = expand_for_match(tags, opened)
    /\ last' = Query("expand_for_match", [found |-> \E i \in Rows : tags[i] \cap MatchTags # {}], TRUE)
    /\ UNCHANGED <<match_end, par, checked, tags, all_sector_iids, pc, label, selection, searched, server, transport>>

ToggleRecursiveExpand(expand) ==
    /\ pc = "loaded"
    /\ LET r == toggle_recursive_expand(opened, expand)
       IN /\ opened' = r.opened
          /\ last' = Query("toggle_recursive_expand", [expand |-> expand], r.ret)
    /\ UNCHANGED <<match_end, par, checked, tags, all_sector_iids, pc, label, selection, searched, server, transport>>

\* SelectTreeWidget.search with the pattern typed into the search entry; <<>>
\* is the empty entry.  The labels and patterns are lower case, so IGNORECASE
\* changes no match.
WidgetSearch(pattern) ==
    /\ pc = "loaded"
    /\ IF pattern # <<>>
       THEN LET r == search(tags, pattern)
            IN /\ tags' = r.tags
               /\ opened' = IF r.match
                            THEN expand_for_match(r.tags,
                                     toggle_recursive_expand(opened, "False").opened)
                            ELSE opened
               /\ last' = Query("widget_search", [pattern |-> pattern], r.match)
       ELSE /\ tags' = remove_match_tags(tags)
            /\ opened' = opened
            /\ last' = Query("widget_search", [pattern |-> pattern], FALSE)
    /\ searched' = pattern
    /\ UNCHANGED <<match_end, par, checked, all_sector_iids, pc, label, selection, server, transport>>

\* The caller has built a tree of at most MaxSearchNodes labelled TreeNodes,
\* each with opened given or left unset.
InitExpand ==
    /\ \E n \in 0..MaxSearchNodes :
          /\ par \in [1..n -> 0..MaxSearchNodes]
          /\ IsPreorder(par)
          /\ label \in [1..n -> Labels]
          /\ checked = [i \in 0..n |-> "None"]
          /\ opened \in [1..n -> BOOLEAN]
    /\ tags = <<>>
    /\ all_sector_iids = {}
    /\ pc = "new"
    /\ last = NoCall
    /\ selection = 0
    /\ searched = <<>>
    /\ match_end = <<FALSE, FALSE>>
    /\ ServerUnused
    /\ TransportUnused

NextExpand ==
    \/ Load
    \/ \E pattern \in Patterns : Search(pattern)
    \/ ExpandForMatch
    \/ \E expand \in CheckedValues : ToggleRecursiveExpand(expand)
    \/ \E pattern \in Patterns \cup {<<>>} : WidgetSearch(pattern)

SpecExpand == InitExpand /\ [][NextExpand]_vars

\* C17: after expand_for_match() on a tree whose search found matches, every
\* strict ancestor of every tagged row is open; and after the widget's search
\* action found matches, a sector is open iff it carries a search tag.
C17_MatchesVisible ==
    /\ (last.op = "expand_for_match" /\ last.args.found) =>
          \A i \in Rows : tags[i] \cap MatchTags # {} => \A a \in Ancestors(i) : opened[a]
    /\ (last.op = "widget_search" /\ last.ret) =>
          \A sector \in all_sector_iids : opened[sector] <=> tags[sector] \cap MatchTags # {}

\* The widget's search found matches and left one sector open and another
\* sector closed.
C17_Witness ==
    /\ last.op = "widget_search" /\ last.ret
    /\ \E sector \in all_sector_iids : opened[sector]
    /\ \E sector \in all_sector_iids : ~opened[sector]

\* ---- TkBgServer.open_socket / close_socket (src/src/tkserver.py) ----
\* errno 98, "Address already in use".
EADDRINUSE == 98

\* The errnos bind and listen can give: 0 for success, EADDRINUSE, and 13
\* (EACCES) for any other error.
Errnos == {0, EADDRINUSE, 13}

\* close_socket: shutdown (its "not connected" error is swallowed), close,
\* and `self.sock = self.server_address = None`.
close_socket(srv) ==
    IF srv.sock # "None" THEN [srv EXCEPT !.sock = "None", !.server_address = 0] ELSE srv

\* The loop of open_socket that gives up at the first address in use.
open_socket_first(srv, k) ==
    LET tried == [srv EXCEPT !.sock = "socket", !.binds = Append(srv.binds, address_pool[k])]
        errno == bind_errno[address_pool[k]]
    IN IF errno = 0
       THEN [tried EXCEPT !.sock = "listening", !.server_address = address_pool[k]]
       ELSE IF errno # EADDRINUSE THEN [tried EXCEPT !.raised = "OSError"]
       ELSE [close_socket(tried) EXCEPT !.raised = "OSError(98)"]

\* The loop of open_socket whose else branch leaves the last socket open.
open_socket_loop_keep(srv, k) ==
    LET codes == [j \in k..Len(address_pool) |-> bind_errno[address_pool[j]]]
        stop == {j \in k..Len(address_pool) : codes[j] # EADDRINUSE}
        upto == IF stop = {} THEN Len(address_pool)
                ELSE CHOOSE j \in stop : \A i \in stop : j <= i
        tried == [srv EXCEPT !.sock = IF upto >= k THEN "socket" ELSE srv.sock,
                             !.binds = srv.binds \o SubSeq(address_pool, k, upto)]
    IN IF stop = {} THEN [tried EXCEPT !.raised = "OSError(98)"]
       ELSE IF codes[upto] = 0
            THEN [tried EXCEPT !.sock = "listening", !.server_address = address_pool[upto]]
       ELSE [tried EXCEPT !.raised = "OSError"]

RECURSIVE open_socket_loop(_, _)
\* The `for addr in self.address_pool` loop from the k-th address on, with
\* its else branch when the pool is exhausted.
open_socket_loop(srv, k) ==
    IF k > Len(address_pool)
    THEN [close_socket(srv) EXCEPT !.raised = "OSError(98)"]
    ELSE LET tried == [srv EXCEPT !.sock = "socket",
                                  !.binds = Append(srv.binds, address_pool[k])]
             errno == bind_errno[address_pool[k]]
         IN IF errno = 0
            THEN [tried EXCEPT !.sock = "listening", !.server_address = address_pool[k]]
            ELSE IF errno # EADDRINUSE THEN [tried EXCEPT !.raised = "OSError"]
            ELSE open_socket_loop(tried, k + 1)

\* The server's fields before a call: nothing raised yet.
Server == [sock |-> sock, server_address |-> server_address, binds |-> binds,
           raised |-> "None"]

open_socket(srv) == IF address_pool # <<>> THEN open_socket_loop(srv, 1) ELSE srv

\* ---- TkBgServer.send / exit in the child process ----
\* accept() returns when a connection is pending: the receiver has connected
\* and the connection was not accepted before.  Otherwise it blocks.
CanSend(p) == p.sock = "None" \/ (receiver = "connected" /\ p.accepted = 0)

\* send(obj): `if self.sock:` accept the pending connection and write the
\* pickled object to it.
send(p, obj) ==
    IF p.sock # "None"
    THEN [p EXCEPT !.accepted = p.accepted + 1, !.sent = Append(p.sent, obj)]
    ELSE p

\* exit(): kill_tk() ends the mainloop, close_socket() closes the socket.
exit(p) == [close_socket(p) EXCEPT !.pc = "after_mainloop"]

\* fin that exits without sending.
fin_nosend(p, obj) == exit(p)

\* fin(obj) of treepopup: server.send(obj); server.exit()
fin(p, obj) == exit(send(p, obj))

\* ---- the state machine of the server ----
\* The largest length of an address pool, and the number of addresses.
MaxPool == 3

Addresses == 1..MaxPool

\* server.open_socket() called before the server is called, on a server
\* whose socket is not listening.
OpenSocket ==
    /\ process = "None"
    /\ sock # "listening"
    /\ Len(binds) <= MaxPool
    /\ LET r == open_socket(Server)
       IN /\ sock' = r.sock
          /\ server_address' = r.server_address
          /\ binds' = r.binds
          /\ raised' = r.raised
    /\ last' = Query("open_socket", [binds |-> Len(binds), opened |-> TRUE], TRUE)
    /\ UNCHANGED <<par, checked, tags, all_sector_iids, pc, widget, transport, address_pool,
                   bind_errno, receiver, process, proc>>

\* TkBgServer.__call__: open the socket if there is none, connect the
\* receiver, start the child process.  An exception leaves before the
\* process is created.
ServerCall ==
    /\ process = "None"
    /\ Len(binds) <= MaxPool
    /\ LET r == IF sock = "None" THEN open_socket(Server) ELSE Server
           connects == r.raised = "None" /\ r.sock # "None"
           starts == r.raised = "None" /\ (connects => r.server_address # 0)
       IN /\ sock' = r.sock
          /\ server_address' = r.server_address
          /\ binds' = r.binds
          /\ raised' = IF connects /\ ~starts THEN "TypeError" ELSE r.raised
          /\ receiver' = IF connects /\ starts THEN "connected" ELSE receiver
          /\ process' = IF starts THEN "started" ELSE "None"
          /\ proc' = IF starts
                     THEN [sock |-> r.sock, server_address |-> r.server_address,
                           pc |-> "mainloop", accepted |-> 0, sent |-> <<>>]
                     ELSE proc
    /\ last' = Query("__call__", [binds |-> Len(binds), opened |-> sock = "None"], TRUE)
    /\ UNCHANGED <<par, checked, tags, all_sector_iids, pc, widget, transport, address_pool, bind_errno>>

\* confirm (obj = "get_checked") or cancel (obj = "None") in the mainloop.
Fin(obj) ==
    /\ proc.pc = "mainloop"
    /\ CanSend(proc)
    /\ proc' = fin(proc, obj)
    /\ last' = Query("fin", [obj |-> obj], TRUE)
    /\ UNCHANGED <<par, checked, tags, all_sector_iids, pc, widget, transport, address_pool, bind_errno,
                   sock, server_address, binds, raised, receiver, process>>

\* The window is closed without confirm or cancel: the mainloop ends.
WindowClosed ==
    /\ proc.pc = "mainloop"
    /\ proc' = [proc EXCEPT !.pc = "after_mainloop"]
    /\ last' = Query("destroy", [obj |-> "None"], TRUE)
    /\ UNCHANGED <<par, checked, tags, all_sector_iids, pc, widget, transport, address_pool, bind_errno,
                   sock, server_address, binds, raised, receiver, process>>

\* proc after self.tk.mainloop(): self.send(None), then return.
ProcReturn ==
    /\ proc.pc = "after_mainloop"
    /\ CanSend(proc)
    /\ proc' = [send(proc, "None") EXCEPT !.pc = "exited"]
    /\ last' = Query("return", [obj |-> "None"], TRUE)
    /\ UNCHANGED <<par, checked, tags, all_sector_iids, pc, widget, transport, address_pool, bind_errno,
                   sock, server_address, binds, raised, receiver, process>>

\* A server made with a pool of at most MaxPool addresses, each of which is
\* free, in use, or gives another error on bind.
InitServer ==
    /\ \E n \in 0..MaxPool : address_pool \in [1..n -> Addresses]
    /\ bind_errno \in [Addresses -> Errnos]
    /\ sock = "None"
    /\ server_address = 0
    /\ binds = <<>>
    /\ raised = "None"
    /\ receiver = "None"
    /\ process = "None"
    /\ proc = NoChild
    /\ TransportUnused
    /\ par = <<>>
    /\ checked = [i \in {0} |-> "None"]
    /\ tags = <<>>
    /\ all_sector_iids = {}
    /\ pc = "new"
    /\ last = NoCall
    /\ PlainWidget

NextServer ==
    \/ OpenSocket
    \/ ServerCall
    \/ \E obj \in {"None", "get_checked"} : Fin(obj)
    \/ WindowClosed
    \/ ProcReturn

SpecServer == InitServer /\ [][NextServer]_vars

\* ---- vocabulary of the server properties ----
\* The last call ran the loop of open_socket over a pool that is not empty.
OpenAttempted ==
    /\ last.op \in {"open_socket", "__call__"}
    /\ last.args.opened
    /\ address_pool # <<>>

\* The addresses the last call called bind with.
NewBinds == SubSeq(binds, last.args.binds + 1, Len(binds))

\* The positions of the pool whose address is not in use.
NotInUse == {k \in 1..Len(address_pool) : bind_errno[address_pool[k]] # EADDRINUSE}

\* The first of them.
FirstNotInUse == CHOOSE k \in NotInUse : \A j \in NotInUse : k <= j

\* C18: when the first pool address that is not in use can be bound,
\* open_socket binds and listens on it: server_address is that address, and
\* bind was called with the pool addresses up to it, in order, and with no
\* address after it.
C18_FirstFreeWins ==
    (/\ OpenAttempted
     /\ NotInUse # {}
     /\ bind_errno[address_pool[FirstNotInUse]] = 0)
    => /\ sock = "listening"
       /\ server_address = address_pool[FirstNotInUse]
       /\ NewBinds = SubSeq(address_pool, 1, FirstNotInUse)
       /\ raised = "None"

\* The server was called with a pool whose first address is in use, whose
\* second address is free and which has a third address: it listens on the
\* second and the child process runs.
C18_Witness ==
    /\ last.op = "__call__"
    /\ Len(address_pool) = 3
    /\ bind_errno[address_pool[1]] = EADDRINUSE
    /\ server_address = address_pool[2]
    /\ address_pool[3] \notin {address_pool[1], address_pool[2]}
    /\ binds = SubSeq(address_pool, 1, 2)
    /\ process = "started"

\* C19: when every address of the pool is in use, open_socket raises the
\* OSError with errno 98 after bind was tried on each, the server holds no
\* socket and no address, and no child process was started; when bind gives
\* another error, that error is raised at once, with no further bind and no
\* child process.
C19_PoolExhausted ==
    /\ (OpenAttempted /\ NotInUse = {}) =>
          /\ raised = "OSError(98)"
          /\ sock = "None"
          /\ server_address = 0
          /\ NewBinds = address_pool
          /\ process = "None"
    /\ (/\ OpenAttempted
        /\ NotInUse # {}
        /\ bind_errno[address_pool[FirstNotInUse]] # 0) =>
          /\ raised = "OSError"
          /\ NewBinds = SubSeq(address_pool, 1, FirstNotInUse)
          /\ process = "None"

\* The server was called with a pool of two different addresses, both in
\* use: the call raised errno 98 and left no socket.
C19_Witness ==
    /\ last.op = "__call__"
    /\ Len(address_pool) = 2
    /\ address_pool[1] # address_pool[2]
    /\ raised = "OSError(98)"
    /\ binds = address_pool
    /\ sock = "None"

\* C20: a child process with a receiver writes at most one value, has
\* written exactly one when proc returns, whichever way the mainloop ended,
\* and never waits in accept for a connection that does not come; after fin
\* has sent and closed the socket, the send after the mainloop writes nothing.
C20_ExactlyOnePayload ==
    /\ [](receiver = "connected" =>
            /\ Len(proc.sent) <= 1
            /\ proc.pc = "exited" => Len(proc.sent) = 1
            /\ proc.pc \in {"mainloop", "after_mainloop"} => CanSend(proc))
    /\ [][(/\ receiver = "connected"
           /\ proc.pc = "after_mainloop" /\ proc.sock = "None"
           /\ proc'.pc = "exited")
          => (proc'.sent = proc.sent /\ Len(proc.sent) = 1)]_vars

\* The child has returned after a confirm: the receiver got the value of
\* get_checked and nothing else.
C20_Witness ==
    /\ receiver = "connected"
    /\ proc.pc = "exited"
    /\ proc.sent = <<"get_checked">>

\* ---- the receiver and the child processes of one server object ----
\* (src/src/tkserver.py; the errnos are those of Linux)
\* A Python object that is sent, returned or raised: its type, and the rows
\* of a list of TreeNodes.
PyObj(type, rows) == [type |-> type, rows |-> rows]

PyNone == PyObj("NoneType", <<>>)

\* What a call returned or raised.
Returned(v) == [kind |-> "return", value |-> v]

Raised(e) == [kind |-> "raise", value |-> PyObj(e, <<>>)]

\* pickle.dumps(obj), written by the k-th child: one block of bytes.  The
\* block remembers which child wrote it.
dumps(k, obj) == <<[pickled |-> obj, by |-> k]>>

\* pickle.loads(data): the first pickle of the data; EOFError when there is none.
loads(data) == IF data = <<>> THEN Raised("EOFError") ELSE Returned(data[1].pickled)

\* listen(1): the backlog argument of listen.  Linux holds one connection
\* more than that in the accept queue.
ListenBacklog == 1

\* TkBgReceiver.__init__ after connect: the connection waits in the backlog.
\* peer is "pending" (not accepted yet), "open" (accepted, the child holds
\* conn), "closed" (conn was closed), "reset" (the listener was shut down
\* while the connection waited).  data: the bytes that arrived and were not
\* read.  used: receive has read from the socket before.
NewReceiver == [sock |-> "connected", peer |-> "pending", data |-> <<>>, used |-> FALSE]

\* connect was refused: TkBgReceiver.__init__ raised and there is no receiver.
NoReceiver == [sock |-> "None", peer |-> "closed", data |-> <<>>, used |-> FALSE]

\* The Process of a call.  pc "created": never started.  sock: the child's
\* copy of TkBgServer.sock.  conn: the receiver whose connection the child
\* has accepted and holds open, 0 when none.  tk: the window.
NewProcess(started) ==
    [pc |-> IF started THEN "mainloop" ELSE "created",
     sock |-> IF started THEN "listening" ELSE "None",
     conn |-> 0, tk |-> IF started THEN "mainloop" ELSE "None",
     raised |-> "None", wrote |-> <<>>, signals |-> <<>>]

\* A process that runs: started and neither returned nor killed.
Alive(p) == p.pc \notin {"created", "exited", "killed"}

\* ---- TkBgReceiver.receive / close_connection ----
\* A blocking recv returns when there are bytes or the connection has ended;
\* the loop of receive goes on until recv returns b'' or raises.
CanReceive(r, block) == block => (r.sock = "closed" \/ r.peer \in {"closed", "reset"})

\* receive whose loop keeps only what the last recv gave, which is b''.
receive_last(r, block) ==
    IF r.sock = "closed" THEN [recv |-> r, ret |-> Raised("OSError(9)")]
    ELSE IF r.peer = "reset"
    THEN [recv |-> [r EXCEPT !.peer = "closed", !.data = <<>>, !.used = TRUE],
          ret |-> Raised("ConnectionResetError")]
    ELSE IF r.peer = "closed"
    THEN [recv |-> [r EXCEPT !.data = <<>>, !.used = TRUE], ret |-> loads(<<>>)]
    ELSE [recv |-> [r EXCEPT !.data = <<>>, !.used = TRUE], ret |-> Returned(PyObj("block_value", <<>>))]

\* receive(block, block_value): setblocking raises errno 9 on a closed
\* socket; recv raises when the connection was reset; `data` collects what
\* recv gives until it gives b'' (the peer has closed), then loads(data).
\* When recv raises BlockingIOError the bytes read so far are dropped with
\* the local `data` and block_value is returned.
receive(r, block) ==
    IF r.sock = "closed" THEN [recv |-> r, ret |-> Raised("OSError(9)")]
    ELSE IF r.peer = "reset"
    THEN [recv |-> [r EXCEPT !.peer = "closed", !.data = <<>>, !.used = TRUE],
          ret |-> Raised("ConnectionResetError")]
    ELSE IF r.peer = "closed"
    THEN [recv |-> [r EXCEPT !.data = <<>>, !.used = TRUE], ret |-> loads(r.data)]
    ELSE [recv |-> [r EXCEPT !.data = <<>>, !.used = TRUE], ret |-> Returned(PyObj("block_value", <<>>))]

\* close_connection(): shutdown raises errno 9 on a socket that is closed,
\* which is not the errno 107 the handler swallows; otherwise close.
close_connection(r) ==
    IF r.sock = "closed" THEN [recv |-> r, ret |-> Raised("OSError(9)")]
    ELSE [recv |-> [r EXCEPT !.sock = "closed"], ret |-> Returned(PyNone)]

\* ---- signals ----
\* The largest number of signals the caller sends to one process.
MaxSignals == 4

\* _killsigs on UNIX, where the import of SIGKILL succeeds.
_killsigs == <<"SIGKILL", "SIGABRT", "SIGTERM">>

\* The kernel ends process p: every descriptor it holds is closed, the
\* connection it had accepted with it.  Closing its copy of the listening
\* socket does not shut the listener down.
Killed(p) == [p EXCEPT !.pc = "killed", !.conn = 0, !.sock = "None"]

\* The receivers after process p has ended or closed its conn.
ConnClosed(rs, p) ==
    IF p.conn = 0 THEN rs ELSE [rs EXCEPT ![p.conn].peer = "closed"]

\* os.kill(pid, sig) for each sig of sigs: a running process ends with the
\* first one (each of these signals ends a process that has no handler).
Signalled(p, sigs) ==
    LET q == [p EXCEPT !.signals = p.signals \o sigs]
    IN IF Alive(p) /\ sigs # <<>> THEN Killed(q) ELSE q

\* ---- the calling process ----
\* The largest number of calls of one server object.
MaxCalls == 2

\* The calls that have a receiver.
Receivers == {k \in 1..Len(receivers) : receivers[k].sock # "None"}

\* TkBgServer.__call__ on a server object that was called less than n times: the socket is
\* opened only `if not self.sock`; the Process is created; `if self.sock:`
\* the TkBgReceiver connects (refused when the listener was shut down) and
\* the process is started.  connect waits while the accept queue is full.
Invoke(n) ==
    /\ Len(processes) < n
    /\ Len(binds) <= MaxPool
    /\ listener = "listening" => Len(backlog) <= ListenBacklog
    /\ LET r == IF sock = "None" THEN open_socket(Server) ELSE Server
           k == Len(processes) + 1
           lst == IF sock = "None" /\ r.sock = "listening" THEN "listening" ELSE listener
           refused == r.sock # "None" /\ lst # "listening"
       IN /\ sock' = r.sock
          /\ server_address' = r.server_address
          /\ binds' = r.binds
          /\ listener' = lst
          /\ IF r.raised # "None"
             THEN /\ raised' = r.raised
                  /\ UNCHANGED <<backlog, processes, receivers>>
             ELSE IF r.sock = "None"
             THEN /\ raised' = "None"
                  /\ processes' = Append(processes, NewProcess(TRUE))
                  /\ receivers' = Append(receivers, NoReceiver)
                  /\ UNCHANGED backlog
             ELSE IF refused
             THEN /\ raised' = "ConnectionRefusedError"
                  /\ processes' = Append(processes, NewProcess(FALSE))
                  /\ receivers' = Append(receivers, NoReceiver)
                  /\ UNCHANGED backlog
             ELSE /\ raised' = "None"
                  /\ processes' = Append(processes, NewProcess(TRUE))
                  /\ receivers' = Append(receivers, NewReceiver)
                  /\ backlog' = Append(backlog, k)
          /\ last' = Query("__call__",
                           [call |-> k,
                            sent |-> \E i \in 1..Len(processes) : processes[i].wrote # <<>>],
                           IF r.raised # "None" THEN Raised(r.raised)
                           ELSE IF r.sock = "None" THEN Returned(PyNone)
                           ELSE IF refused THEN Raised("ConnectionRefusedError")
                           ELSE Returned(PyObj("TkBgReceiver", <<>>)))
    /\ UNCHANGED <<par, checked, tags, all_sector_iids, pc, widget, address_pool,
                   bind_errno, receiver, process, proc, scope>>

\* receivers[k].receive(block)
Receive(k, block) ==
    /\ k \in Receivers
    /\ CanReceive(receivers[k], block)
    /\ LET r == receive(receivers[k], block)
       IN /\ receivers' = [receivers EXCEPT ![k] = r.recv]
          /\ last' = Query("receive", [call |-> k, block |-> block], r.ret)
    /\ UNCHANGED <<par, checked, tags, all_sector_iids, pc, widget, server,
                   listener, backlog, processes, scope>>

\* receivers[k].close_connection()
CloseConnection(k) ==
    /\ k \in Receivers
    /\ LET r == close_connection(receivers[k])
       IN /\ receivers' = [receivers EXCEPT ![k] = r.recv]
          /\ last' = Query("close_connection", [call |-> k], r.ret)
    /\ UNCHANGED <<par, checked, tags, all_sector_iids, pc, widget, server,
                   listener, backlog, processes, scope>>

\* terminate_server(): self.server.process.terminate() on the Process the
\* server object holds, which is the one of its last call (AttributeError
\* when that Process was never started), then close_connection().
terminate_server(ps, rs, k) ==
    LET t == Len(ps)
        p == Signalled(ps[t], <<"SIGTERM">>)
        closed == ConnClosed(rs, ps[t])
        r == close_connection(closed[k])
    IN IF ps[t].pc = "created"
       THEN [processes |-> ps, receivers |-> rs, ret |-> Raised("AttributeError")]
       ELSE [processes |-> [ps EXCEPT ![t] = p],
             receivers |-> [closed EXCEPT ![k] = r.recv],
             ret |-> r.ret]

TerminateServer(k) ==
    /\ k \in Receivers
    /\ Len(processes[Len(processes)].signals) + 1 <= MaxSignals
    /\ LET r == terminate_server(processes, receivers, k)
       IN /\ processes' = r.processes
          /\ receivers' = r.receivers
          /\ last' = Query("terminate_server", [call |-> k], r.ret)
    /\ UNCHANGED <<par, checked, tags, all_sector_iids, pc, widget, server,
                   listener, backlog, scope>>

\* kill_server(): os.kill(self.server.process.pid, sig) for sig in _killsigs;
\* the pid of a Process that was never started is None (TypeError).
kill_server(ps, rs, k) ==
    LET t == Len(ps)
    IN IF ps[t].pc = "created"
       THEN [processes |-> ps, receivers |-> rs, ret |-> Raised("TypeError")]
       ELSE [processes |-> [ps EXCEPT ![t] = Signalled(ps[t], _killsigs)],
             receivers |-> ConnClosed(rs, ps[t]),
             ret |-> Returned(PyNone)]

KillServer(k) ==
    /\ k \in Receivers
    /\ Len(processes[Len(processes)].signals) + Len(_killsigs) <= MaxSignals
    /\ LET r == kill_server(processes, receivers, k)
       IN /\ processes' = r.processes
          /\ receivers' = r.receivers
          /\ last' = Query("kill_server", [call |-> k], r.ret)
    /\ UNCHANGED <<par, checked, tags, all_sector_iids, pc, widget, server,
                   listener, backlog, scope>>

\* `with receivers[k] as recv:` is entered.
Enter(k) ==
    /\ k \in Receivers
    /\ scope.at = "none"
    /\ scope' = [recv |-> k, at |-> "inside", entered |-> receivers[k].sock,
                 raised |-> "None"]
    /\ last' = Query("__enter__", [call |-> k], Returned(PyObj("TkBgReceiver", <<>>)))
    /\ UNCHANGED <<par, checked, tags, all_sector_iids, pc, widget, server,
                   listener, backlog, processes, receivers>>

\* The block ends, normally (exc = "None") or by an exception:
\* __exit__ calls terminate_server() and returns None.
Exit(exc) ==
    /\ scope.at = "inside"
    /\ Len(processes[Len(processes)].signals) + 1 <= MaxSignals
    /\ LET r == terminate_server(processes, receivers, scope.recv)
       IN /\ processes' = r.processes
          /\ receivers' = r.receivers
          /\ scope' = [scope EXCEPT !.at = "exited",
                                    !.raised = IF r.ret.kind = "raise" THEN r.ret.value.type
                                               ELSE "None"]
          /\ last' = Query("__exit__", [call |-> scope.recv, exc |-> exc], r.ret)
    /\ UNCHANGED <<par, checked, tags, all_sector_iids, pc, widget, server,
                   listener, backlog>>

\* ---- the child process of the k-th call ----
\* self.sock.accept() returns when a connection waits, and raises errno 22
\* when the listening socket was shut down; otherwise it blocks.
CanAccept == listener = "shutdown" \/ backlog # <<>>

\* send(obj) up to conn.send: `if self.sock:` accept the oldest waiting
\* connection and write dumps(obj) to it.  A receiver that has closed its
\* socket gets nothing.  st holds processes, receivers, backlog.
child_send(st, k, obj) ==
    LET p == st.processes[k]
        j == Head(st.backlog)
    IN IF p.sock = "None" THEN st
       ELSE IF listener = "shutdown"
       THEN [st EXCEPT !.processes[k].raised = "OSError(22)"]
       ELSE [processes |-> [st.processes EXCEPT ![k].conn = j,
                                              ![k].wrote = Append(p.wrote, obj)],
             receivers |-> [st.receivers EXCEPT
                              ![j].peer = "open",
                              ![j].data = IF st.receivers[j].sock = "connected"
                                          THEN st.receivers[j].data \o dumps(k, obj)
                                          ELSE <<>>],
             backlog |-> Tail(st.backlog)]

Transport == [processes |-> processes, receivers |-> receivers, backlog |-> backlog]

\* confirm (obj is get_checked()) or cancel (obj is None) in the mainloop of
\* the k-th child: fin(obj) up to the write of server.send(obj).  An
\* exception of the handler is reported by tkinter and the mainloop goes on.
FinSend(k, obj) ==
    /\ k \in 1..Len(processes)
    /\ processes[k].pc = "mainloop"
    /\ processes[k].sock # "None" => CanAccept
    /\ LET st == child_send(Transport, k, obj)
           failed == st.processes[k].raised # "None"
       IN /\ processes' = [st.processes EXCEPT
                             ![k].pc = IF failed THEN "mainloop" ELSE "fin_sent"]
          /\ receivers' = st.receivers
          /\ backlog' = st.backlog
    /\ UNCHANGED <<last, par, checked, tags, all_sector_iids, pc, widget, server, listener, scope>>

\* server.send(obj) returns: conn goes out of scope and is closed.
SendReturns(k) ==
    /\ k \in 1..Len(processes)
    /\ processes[k].pc = "fin_sent"
    /\ processes' = [processes EXCEPT ![k].pc = "fin_exit", ![k].conn = 0]
    /\ receivers' = ConnClosed(receivers, processes[k])
    /\ UNCHANGED <<last, par, checked, tags, all_sector_iids, pc, widget, server, listener,
                   backlog, scope>>

\* server.exit(), first half: kill_tk() destroys the window.
KillTk(k) ==
    /\ k \in 1..Len(processes)
    /\ processes[k].pc = "fin_exit"
    /\ processes' = [processes EXCEPT ![k].pc = "fin_close", ![k].tk = "destroyed"]
    /\ UNCHANGED <<last, par, checked, tags, all_sector_iids, pc, widget, server, listener,
                   backlog, receivers, scope>>

\* server.exit(), second half: close_socket() in the child.  shutdown acts
\* on the listening socket itself, which the caller and the other children
\* share: it stops listening and the connections that wait are reset.
ChildCloseSocket(k) ==
    /\ k \in 1..Len(processes)
    /\ processes[k].pc = "fin_close"
    /\ processes' = [processes EXCEPT ![k].pc = "after_mainloop", ![k].sock = "None"]
    /\ IF processes[k].sock # "None"
       THEN /\ listener' = "shutdown"
            /\ backlog' = <<>>
            /\ receivers' = [j \in 1..Len(receivers) |->
                               IF \E i \in 1..Len(backlog) : backlog[i] = j
                               THEN [receivers[j] EXCEPT !.peer = "reset"]
                               ELSE receivers[j]]
       ELSE UNCHANGED <<listener, backlog, receivers>>
    /\ UNCHANGED <<last, par, checked, tags, all_sector_iids, pc, widget, server, scope>>

\* The window of the k-th child is closed without confirm or cancel.
Destroyed(k) ==
    /\ k \in 1..Len(processes)
    /\ processes[k].pc = "mainloop"
    /\ processes' = [processes EXCEPT ![k].pc = "after_mainloop", ![k].tk = "destroyed"]
    /\ UNCHANGED <<last, par, checked, tags, all_sector_iids, pc, widget, server, listener,
                   backlog, receivers, scope>>

\* proc after the mainloop: self.send(None); an OSError other than errno 9
\* is raised again and ends the process.
ProcSendNone(k) ==
    /\ k \in 1..Len(processes)
    /\ processes[k].pc = "after_mainloop"
    /\ processes[k].sock # "None" => CanAccept
    /\ LET st == child_send([Transport EXCEPT !.processes[k].raised = "None"], k, PyNone)
       IN /\ processes' = [st.processes EXCEPT ![k].pc = "returning"]
          /\ receivers' = st.receivers
          /\ backlog' = st.backlog
    /\ UNCHANGED <<last, par, checked, tags, all_sector_iids, pc, widget, server, listener, scope>>

\* proc returns and the process ends: what it holds is closed.
ProcExit(k) ==
    /\ k \in 1..Len(processes)
    /\ processes[k].pc = "returning"
    /\ processes' = [processes EXCEPT ![k].pc = "exited", ![k].conn = 0, ![k].sock = "None"]
    /\ receivers' = ConnClosed(receivers, processes[k])
    /\ UNCHANGED <<last, par, checked, tags, all_sector_iids, pc, widget, server, listener,
                   backlog, scope>>

\* ---- the state machine of one call and its receiver ----
\* A server object made with one free address and an empty tree.  It is
\* called once; the caller uses the receiver while the child runs.
InitTransport ==
    /\ address_pool = <<1>>
    /\ bind_errno = [a \in Addresses |-> 0]
    /\ sock = "None"
    /\ server_address = 0
    /\ binds = <<>>
    /\ raised = "None"
    /\ receiver = "None"
    /\ process = "None"
    /\ proc = NoChild
    /\ TransportUnused
    /\ par = <<>>
    /\ checked = [i \in {0} |-> "None"]
    /\ tags = <<>>
    /\ all_sector_iids = {}
    /\ pc = "new"
    /\ last = NoCall
    /\ PlainWidget

\* cancel(e): fin(None)
Cancel(k) == FinSend(k, PyNone)

\* confirm that sends what was checked when the tree was loaded.
confirm_obj_loaded == PyObj("list", get_loop(LoadTags(checked), Children(0)))

\* confirm(e): fin(widget.tree.get_checked())
confirm_obj == PyObj("list", get_checked)

Confirm(k) == FinSend(k, confirm_obj)

\* The steps of the child of the k-th call.
Child(k) ==
    \/ Cancel(k)
    \/ Confirm(k)
    \/ SendReturns(k)
    \/ KillTk(k)
    \/ ChildCloseSocket(k)
    \/ Destroyed(k)
    \/ ProcSendNone(k)
    \/ ProcExit(k)

NextReceiver ==
    \/ Invoke(1)
    \/ \E block \in BOOLEAN : Receive(1, block)
    \/ CloseConnection(1)
    \/ TerminateServer(1)
    \/ KillServer(1)
    \/ Enter(1)
    \/ \E exc \in {"None", "KeyError"} : Exit(exc)
    \/ Child(1)

SpecReceiver == InitTransport /\ [][NextReceiver]_vars

\* ---- C21 ----
\* C21: when the child of a call has called send(x) and its connection is
\* closed, receive(block=True) on the receiver of that call, which is open
\* and was not read before, returns x; and a blocking receive returns only
\* when the peer has closed the connection.
C21_SendThenReceive ==
    [][\A k \in Receivers :
          Receive(k, TRUE) =>
             /\ last'.ret.kind = "return" => receivers[k].peer = "closed"
             /\ (/\ receivers[k].sock = "connected"
                 /\ ~receivers[k].used
                 /\ receivers[k].peer = "closed"
                 /\ processes[k].wrote # <<>>)
                => last'.ret = Returned(processes[k].wrote[1])]_vars

\* A blocking receive has returned what the child sent with confirm.
C21_Witness ==
    /\ last.op = "receive"
    /\ last.args.block
    /\ processes[1].wrote = <<confirm_obj>>
    /\ processes[1].pc \in {"fin_exit", "fin_close", "after_mainloop", "returning", "exited"}
    /\ last.ret = Returned(confirm_obj)
    /\ receivers[1].used

\* ---- the popup: the tree of the example in the child of one call ----
\* A click on a row while the mainloop of the child runs.
PopupToggle(check, iid_path) ==
    /\ processes # <<>>
    /\ processes[1].pc = "mainloop"
    /\ ToggleCheck(check, iid_path)

\* treepopup called with the tree of the example and one free address.
InitPopup ==
    /\ par = ExamplePar
    /\ checked = compile(ExampleChecked)
    /\ tags = LoadTags(checked)
    /\ all_sector_iids = SectorIids
    /\ pc = "loaded"
    /\ last = NoCall
    /\ PlainWidget
    /\ address_pool = <<1>>
    /\ bind_errno = [a \in Addresses |-> 0]
    /\ sock = "None"
    /\ server_address = 0
    /\ binds = <<>>
    /\ raised = "None"
    /\ receiver = "None"
    /\ process = "None"
    /\ proc = NoChild
    /\ TransportUnused

NextPopup ==
    \/ Invoke(1)
    \/ \E check \in CheckedValues, iid_path \in 0..Len(par) : PopupToggle(check, iid_path)
    \/ Child(1)
    \/ \E block \in BOOLEAN : Receive(1, block)

SpecPopup == InitPopup /\ [][NextPopup]_vars

\* ---- C22 ----
\* C22: cancel sends None and confirm sends what get_checked() gives at that
\* moment, the receiver of the call gets it, and the caller's receive
\* returns it; the window is destroyed and the socket of the server closed
\* only after the value was sent.
C22_SentBeforeExit ==
    /\ [][/\ Cancel(1) =>
               /\ processes'[1].wrote = <<PyNone>>
               /\ receivers'[1].data = dumps(1, PyNone)
          /\ Confirm(1) =>
               /\ processes'[1].wrote = <<PyObj("list", get_checked)>>
               /\ receivers'[1].data = dumps(1, PyObj("list", get_checked))
          /\ (Cancel(1) \/ Confirm(1)) =>
               /\ processes'[1].tk = "mainloop"
               /\ processes'[1].sock = "listening"
               /\ listener' = "listening"
          /\ KillTk(1) => processes[1].wrote # <<>>
          /\ ChildCloseSocket(1) =>
               processes[1].wrote # <<>> /\ processes[1].tk = "destroyed"]_vars
    /\ []((/\ last.op = "receive"
            /\ last.ret.kind = "return"
            /\ last.ret.value.type # "block_value")
           => /\ processes[1].wrote # <<>>
              /\ last.ret.value = processes[1].wrote[1])

\* The caller has received the list of a confirm that followed a click,
\* and the child has closed its socket.
C22_Witness ==
    /\ processes # <<>>
    /\ processes[1].wrote = <<PyObj("list", get_checked)>>
    /\ get_checked # get_loop(LoadTags(checked), Children(0))
    /\ processes[1].pc = "exited"
    /\ processes[1].tk = "destroyed"
    /\ listener = "shutdown"
    /\ last.op = "receive"
    /\ last.ret = Returned(PyObj("list", get_checked))

\* ---- C23 ----
\* The signals the caller has sent to the Process the server object holds.
SignalsSent == processes[Len(processes)].signals

\* C23: when a `with` block around a connected receiver has been left, whatever was
\* called on the receiver inside it and however it ended, the process of
\* the server was sent a terminate request, the receiver's connection is
\* closed, and leaving the block raised no error of its own.
C23_ScopeExitTearsDown ==
    (scope.at = "exited" /\ scope.entered = "connected") =>
       /\ \E i \in 1..Len(SignalsSent) : SignalsSent[i] = "SIGTERM"
       /\ receivers[scope.recv].sock = "closed"
       /\ scope.raised = "None"

\* ---- C24 ----
\* C24: close_connection on a receiver whose socket was already shut down
\* and closed raises nothing.
C24_CloseAgainIsIgnored ==
    [][\A k \in Receivers :
          (CloseConnection(k) /\ receivers[k].sock = "closed")
          => last'.ret.kind = "return"]_vars

\* ---- C25 ----
\* C25: kill_server sends three signals to the child, one after the other:
\* the hard kill first, then terminate, then break or interrupt.
C25_KillOrder ==
    [][\A k \in Receivers :
          (KillServer(k) /\ last'.ret.kind = "return")
          => LET sent == SubSeq(SignalsSent', Len(SignalsSent) + 1, Len(SignalsSent'))
             IN /\ Len(sent) = 3
                /\ sent[1] = "SIGKILL"
                /\ sent[2] = "SIGTERM"
                /\ sent[3] \in {"SIGBREAK", "SIGINT"}]_vars

\* ---- C26 ----
\* The tree after load and any sequence of toggle_check calls.
NextToggle ==
    \/ Load
    \/ \E check \in CheckedValues, iid_path \in 0..Len(par) : ToggleCheck(check, iid_path)

SpecToggle == Init /\ [][NextToggle]_vars

\* The leaves that carry the tag of a checked entry.
CheckedLeaves == {l \in Leaves : TagsChecked(tags[l])}

\* C26: after load and any toggle_check calls, get_checked() covers the
\* checked leaves exactly: each checked leaf is returned itself or has
\* exactly one ancestor in the result, no returned row has an unchecked leaf
\* below it, and no returned row is a descendant of another returned row.
C26_ExactCover ==
    pc = "loaded" =>
        LET result == Range(get_checked)
        IN /\ \A l \in CheckedLeaves :
                 Cardinality(({l} \cup Ancestors(l)) \cap result) = 1
           /\ \A r \in result : LeavesBelow(r) \subseteq CheckedLeaves
           /\ \A r \in result : Ancestors(r) \cap result = {}

\* ---- C30 ----
\* C30: toggle_check() with no path and no desired state inverts the whole
\* tree: when every top-level row, leaf or sector, is checked it unchecks
\* every row and returns False, otherwise it checks every row and returns True.
C30_RootOmittedInverts ==
    [][ToggleCheck("None", 0) =>
          IF \A c \in ChildSet(0) : RowState(tags, c) = "checked"
          THEN /\ last'.ret = FALSE
               /\ \A i \in Rows : RowState(tags', i) = "unchecked"
          ELSE /\ last'.ret = TRUE
               /\ \A i \in Rows : RowState(tags', i) = "checked"]_vars

\* ---- the widget's next match (F3 / Shift-F3) ----
\* SelectTreeWidget.next_match(reverse): back_to_begin is given when the
\* previous next_match found no further match and had the same direction.
\* An exception of selection_to_next_match leaves the method before the
\* flags are stored, after the end flag was cleared for a wrap.
NextMatch(reverse) ==
    /\ pc = "loaded"
    /\ LET to_begin == match_end[1] /\ reverse = match_end[2]
           m == get_next_match(tags, <<>>, TRUE, FALSE, reverse, to_begin)
       IN /\ selection' = IF m.kind = "TreeNode" THEN m.iid_path ELSE selection
          /\ match_end' = IF m.kind = "ValueError"
                          THEN <<match_end[1] /\ ~to_begin, match_end[2]>>
                          ELSE <<m.kind = "None", reverse>>
          /\ last' = Query("next_match",
                           [start |-> selection, reverse |-> reverse,
                            back_to_begin |-> to_begin], m)
    /\ UNCHANGED <<par, checked, tags, all_sector_iids, pc, label, opened, searched,
                   server, transport>>

NextWidget ==
    \/ Load
    \/ \E pattern \in Patterns \cup {<<>>} : WidgetSearch(pattern)
    \/ \E iid_path \in Rows : SetSelection(iid_path)
    \/ \E reverse \in BOOLEAN : NextMatch(reverse)

SpecWidget == InitSearch /\ [][NextWidget]_vars

\* ---- C28 ----
\* C28: after a search that tagged at least two matches, next_match(False)
\* (F3) on a selected match that is not the last one moves the selection to
\* the match that follows it, so the selection does not stay on one match;
\* and it puts the selection on the first match from the last one only when
\* the invocation directly before it had the same direction and found no
\* further match.
C28_F3Advances ==
    (/\ last.op = "next_match"
     /\ ~last.args.reverse
     /\ Len(get_matches(tags, TRUE, FALSE)) >= 2
     /\ IndexOf(get_matches(tags, TRUE, FALSE), last.args.start) # 0)
    => LET matches == get_matches(tags, TRUE, FALSE)
           at == IndexOf(matches, last.args.start)
       IN /\ at < Len(matches) => selection = matches[at + 1]
          /\ (at = Len(matches) /\ selection = matches[1]) => last.args.back_to_begin

\* ---- recursive expansion from a row ----
\* TreeNode.compile: the iid_path of a row is the iid_path of its parent, the
\* parent's iid_sep and the row's iid; the root has the iid_path "" and the
\* iid_sep "", every other TreeNode the iid_sep ".".  A TreeNode built
\* without iid has its label as iid.
RECURSIVE iid_path(_)
iid_path(i) ==
    IF par[i] = 0 THEN label[i] ELSE iid_path(par[i]) \o <<".">> \o label[i]

\* str.startswith
startswith(s, prefix) ==
    Len(prefix) <= Len(s) /\ SubSeq(s, 1, Len(prefix)) = prefix

\* toggle_recursive_expand(start_iid, expand) with a non-empty start_iid,
\* given as the row that has this iid_path.
toggle_recursive_expand_from(opn, start_iid, expand) ==
    LET exp == IF expand # "None" THEN PyBool(expand) ELSE ~opn[start_iid]
    IN [opened |-> [i \in DOMAIN opn |->
                       IF i \in all_sector_iids /\ startswith(iid_path(i), iid_path(start_iid))
                       THEN exp ELSE opn[i]],
        ret |-> exp]

\* "+", "-", <Double-Right>, <Double-Left> on the selected row, or a call of
\* toggle_recursive_expand(start_iid, expand).
ToggleRecursiveExpandFrom(start_iid, expand) ==
    /\ pc = "loaded"
    /\ LET r == toggle_recursive_expand_from(opened, start_iid, expand)
       IN /\ opened' = r.opened
          /\ last' = Query("toggle_recursive_expand",
                           [start_iid |-> start_iid, expand |-> expand], r.ret)
    /\ UNCHANGED <<par, checked, tags, all_sector_iids, pc, label, selection, searched,
                   match_end, server, transport>>

\* The largest number of TreeNodes of the trees that are expanded from a row.
MaxExpandNodes == 4

\* The caller has built a tree of at most MaxExpandNodes TreeNodes without
\* iid, so the labels are the iids and no two children of one parent share one.
InitExpandFrom ==
    /\ \E n \in 0..MaxExpandNodes :
          /\ par \in [1..n -> 0..MaxExpandNodes]
          /\ IsPreorder(par)
          /\ label \in [1..n -> Labels]
          /\ \A i, j \in 1..n : (i # j /\ par[i] = par[j]) => label[i] # label[j]
          /\ checked = [i \in 0..n |-> "None"]
          /\ opened \in [1..n -> BOOLEAN]
    /\ tags = <<>>
    /\ all_sector_iids = {}
    /\ pc = "new"
    /\ last = NoCall
    /\ selection = 0
    /\ searched = <<>>
    /\ match_end = <<FALSE, FALSE>>
    /\ ServerUnused
    /\ TransportUnused

NextExpandFrom ==
    \/ Load
    \/ \E start_iid \in Rows, expand \in CheckedValues :
          ToggleRecursiveExpandFrom(start_iid, expand)

SpecExpandFrom == InitExpandFrom /\ [][NextExpandFrom]_vars

\* ---- C29 ----
\* C29: toggle_recursive_expand(start, expand) with a non-empty start sets
\* the open state of start, when it is a sector, and of every sector in its
\* subtree to expand, and leaves the open state of every sector outside the
\* subtree as it was, sibling sectors whose iid_path begins with the
\* characters of start's included.
C29_OnlyTheSubtree ==
    [][\A start_iid \in Rows, expand \in {"True", "False"} :
          ToggleRecursiveExpandFrom(start_iid, expand) =>
             \A sector \in all_sector_iids :
                opened'[sector] =
                   IF sector = start_iid \/ start_iid \in Ancestors(sector)
                   THEN PyBool(expand) ELSE opened[sector]]_vars

\* ---- the state machine of the calls of one server object ----
\* The server object is called up to MaxCalls times; each call forks a child
\* that holds the listening socket of the server object, and the caller
\* receives with block=True.
NextCalls ==
    \/ Invoke(MaxCalls)
    \/ \E k \in 1..MaxCalls : Receive(k, TRUE)
    \/ \E k \in 1..MaxCalls : Child(k)

SpecCalls == InitTransport /\ [][NextCalls]_vars

\* ---- C27 ----
\* C27: when the server object was called a second time before a child had
\* sent, then, however the sends of the children interleave afterwards,
\* every receiver gets only bytes written by the child of its own call, no
\* receiver loses its connection without a payload and no child fails to send.
C27_OwnChildOnly ==
    (last.op = "__call__" /\ last.args.call > 1 /\ ~last.args.sent) =>
        \A k \in Receivers :
           /\ \A i \in 1..Len(receivers[k].data) : receivers[k].data[i].by = k
           /\ receivers[k].peer # "reset"
           /\ processes[k].raised = "None"

====
